---- MODULE Spec2Model ----
(***************************************************************************)
(* State-machine model of the muggingface worker (src/src/index.ts): one   *)
(* request that lists a repository, streams every file into a ZIP archive  *)
(* uploaded as an R2 multipart upload, hashes the same stream into torrent *)
(* pieces and finally stores the torrent.                                  *)
(*                                                                         *)
(* Byte arrays (Uint8Array) are sequences over 0..255.  Strings are        *)
(* sequences of code points; TextEncoder is Utf8Encode.                    *)
(***************************************************************************)
EXTENDS Integers, Sequences, FiniteSets, TLC

(***************************************************************************)
(* Bounds of the model.  The two size constants of the program are scaled  *)
(* down (60 MiB and 1 MiB in the source) so that parts and pieces fill up  *)
(* within archives of a few hundred bytes.                                 *)
(***************************************************************************)
R2_PART_SIZE_LIMIT == 49
TORRENT_PIECE_LENGTH == 16
MaxFiles == 3
MaxChunks == 2
LongNameLen == 34
MaxFed == 100     \* bytes fed to the piece hasher when it runs on its own
MaxTop == 1       \* multiples of 2^32 in a size or an offset given to a framer

\* Fixed record sizes of the ZIP framer and of a SHA-1 digest.
LocalHeaderFixedLen == 30
DataDescriptorLen == 12
CentralEntryFixedLen == 46
EOCDFixedLen == 22
DigestLen == 20

(***************************************************************************)
(* Strings                                                                 *)
(***************************************************************************)
Slash == 47

STR_a_txt == <<97, 46, 116, 120, 116>>              \* "a.txt"
STR_d_b_bin == <<100, 47, 98, 46, 98, 105, 110>>    \* "d/b.bin"
\* "éé...é" (U+00E9, two bytes each in UTF-8): a name whose local header
\* is longer than two parts
STR_long_name == [i \in 1..LongNameLen |-> 233]
STR_owner_model == <<111, 47, 109>>                 \* "o/m"
STR_noslash == <<109>>                              \* "m"
STR_zip == <<46, 122, 105, 112>>                    \* ".zip"
STR_torrent == <<46, 116, 111, 114, 114, 101, 110, 116>>   \* ".torrent"

RECURSIVE Flatten(_)
\* concat(...arrays): the arrays one after the other.
Flatten(arrays) ==
    IF arrays = <<>> THEN <<>> ELSE Head(arrays) \o Flatten(Tail(arrays))

concat(arrays) == Flatten(arrays)

RECURSIVE SplitFrom(_, _, _)
\* String.prototype.split(sep): acc is the segment being read.
SplitFrom(s, sep, acc) ==
    IF s = <<>> THEN <<acc>>
    ELSE IF Head(s) = sep THEN <<acc>> \o SplitFrom(Tail(s), sep, <<>>)
    ELSE SplitFrom(Tail(s), sep, Append(acc, Head(s)))

Split(s, sep) == SplitFrom(s, sep, <<>>)

RECURSIVE Join(_, _)
\* Array.prototype.join(sep)
Join(parts, sep) ==
    IF parts = <<>> THEN <<>>
    ELSE IF Len(parts) = 1 THEN Head(parts)
    ELSE Head(parts) \o <<sep>> \o Join(Tail(parts), sep)

\* path.split("/").pop()
LastSegment(path) == LET segs == Split(path, Slash) IN segs[Len(segs)]

RECURSIVE Utf8Encode(_)
\* new TextEncoder().encode(s), for code points below U+0800.
Utf8Encode(s) ==
    IF s = <<>> THEN <<>>
    ELSE LET c == Head(s) IN
         (IF c < 128 THEN <<c>>
          ELSE <<192 + (c \div 64), 128 + (c % 64)>>) \o Utf8Encode(Tail(s))

(***************************************************************************)
(* DataView writes (little endian).  setUint16/setUint32 store the value   *)
(* modulo 2^16 / 2^32.                                                     *)
(***************************************************************************)
LE16(v) == <<v % 256, (v \div 256) % 256>>
LE32(v) == <<v % 256, (v \div 256) % 256, (v \div 65536) % 256, (v \div 16777216) % 256>>

\* A size or an offset of the program (a JavaScript number, which may pass
\* 2^32) is handed to the framer as <<top, hi, lo>>, which stands for
\* top * 2^32 + hi * 2^16 + lo with hi and lo below 2^16.
Num(n) == <<0, n \div 65536, n % 65536>>

\* A 32-bit write that stores 0xFFFFFFFF for a value that does not fit.
setUint32Saturating(v) ==
    IF v[1] > 0 THEN <<255, 255, 255, 255>> ELSE LE16(v[3]) \o LE16(v[2])

\* view.setUint32(at, v, true) for a size or an offset: DataView stores
\* ToUint32(v), the value modulo 2^32, low byte first, and never throws.
setUint32(v) == LE16(v[3]) \o LE16(v[2])

\* Reading the fields back, as a ZIP reader does (a byte past the end reads 0).
ByteAt(b, i) == IF i \in 1..Len(b) THEN b[i] ELSE 0
RdLE16(b, at) == ByteAt(b, at + 1) + 256 * ByteAt(b, at + 2)
RdLE32(b, at) ==
    ByteAt(b, at + 1) + 256 * ByteAt(b, at + 2) + 65536 * ByteAt(b, at + 3)
        + 16777216 * ByteAt(b, at + 4)
\* The n bytes of b that follow offset at.
BytesAt(b, at, n) == [i \in 1..n |-> ByteAt(b, at + i)]

Zeros(n) == [i \in 1..n |-> 0]

(***************************************************************************)
(* crc32: table-driven IEEE CRC-32.  A 32-bit word is the pair <<hi, lo>>  *)
(* of its 16-bit halves (the bit pattern the JS int32 operators work on).  *)
(***************************************************************************)
RECURSIVE Xor(_, _)
Xor(a, b) ==
    IF a = 0 THEN b
    ELSE IF b = 0 THEN a
    ELSE (((a % 2) + (b % 2)) % 2) + 2 * Xor(a \div 2, b \div 2)

WXor(x, y) == <<Xor(x[1], y[1]), Xor(x[2], y[2])>>
\* x >>> 1
WShr1(x) == <<x[1] \div 2, (x[2] \div 2) + 32768 * (x[1] % 2)>>
\* x >>> 8
WShr8(x) == <<x[1] \div 256, (x[2] \div 256) + 256 * (x[1] % 256)>>
WLowByte(x) == x[2] % 256
WAllOnes == <<65535, 65535>>
CrcPoly == <<60856, 33568>>       \* 0xEDB88320

RECURSIVE CrcTableStep(_, _)
CrcTableStep(c, j) ==
    IF j = 0 THEN c
    ELSE CrcTableStep(IF c[2] % 2 = 1 THEN WXor(CrcPoly, WShr1(c)) ELSE WShr1(c), j - 1)

CrcTable(i) == CrcTableStep(<<0, i>>, 8)

RECURSIVE CrcBytes(_, _)
\* The for loop of crc32.  (The test on next makes TLC compute the register
\* of one round before it enters the following one.)
CrcBytes(data, crc) ==
    IF data = <<>> THEN crc
    ELSE LET next == WXor(WShr8(crc), CrcTable(Xor(WLowByte(crc), Head(data))))
         IN  IF Len(next) = 2 THEN CrcBytes(Tail(data), next) ELSE next

\* crc32 that starts from zero on every call: the running value of the
\* earlier chunks is dropped.
crc32Restart(data, crc) == WXor(CrcBytes(data, WAllOnes), WAllOnes)

crc32(data, crc) == WXor(CrcBytes(data, WXor(crc, WAllOnes)), WAllOnes)

\* view.setUint32(at, crc, true) for a CRC word
WLE32(x) == LE16(x[2]) \o LE16(x[1])

(***************************************************************************)
(* sha1: SHA-1 is modelled as a collision-free digest: the digest of a     *)
(* piece is a 20-byte value that determines the piece.                     *)
(***************************************************************************)
sha1(data) == [digestOf |-> data, byteLength |-> DigestLen]

(***************************************************************************)
(* ZIP framer                                                              *)
(***************************************************************************)
SigLocal == <<80, 75, 3, 4>>        \* 0x04034b50, little endian
SigCentral == <<80, 75, 1, 2>>      \* 0x02014b50
SigEOCD == <<80, 75, 5, 6>>         \* 0x06054b50

\* header.set(bytes, at) / view.setUintNN(at, v, true) on a Uint8Array
SetBytes(buf, at, bytes) ==
    [i \in 1..Len(buf) |->
        IF i > at /\ i <= at + Len(bytes) THEN bytes[i - at] ELSE buf[i]]

RECURSIVE ApplyWrites(_, _)
\* The writes <<at, bytes>> applied to buf in program order.
ApplyWrites(buf, writes) ==
    IF writes = <<>> THEN buf
    ELSE ApplyWrites(SetBytes(buf, Head(writes)[1], Head(writes)[2]), Tail(writes))

makeLocalHeader(filename) ==
    LET utf8Name == Utf8Encode(filename) IN
    ApplyWrites(Zeros(LocalHeaderFixedLen + Len(utf8Name)),
        << <<0, SigLocal>>, <<4, LE16(20)>>, <<6, LE16(8)>>, <<8, LE16(0)>>,
           <<12, LE16(0)>>, <<14, LE16(0)>>, <<16, LE32(0)>>, <<20, LE32(0)>>,
           <<24, LE32(0)>>, <<26, LE16(Len(utf8Name))>>, <<28, LE16(0)>>,
           <<30, utf8Name>> >>)

\* A data descriptor that begins with the optional signature 0x08074b50.
makeDataDescriptorWithSignature(crc, size) ==
    ApplyWrites(Zeros(DataDescriptorLen + 4),
        << <<0, <<80, 75, 7, 8>> >>, <<4, WLE32(crc)>>, <<8, setUint32(size)>>,
           <<12, setUint32(size)>> >>)

makeDataDescriptor(crc, size) ==
    ApplyWrites(Zeros(DataDescriptorLen),
        << <<0, WLE32(crc)>>, <<4, setUint32(size)>>, <<8, setUint32(size)>> >>)

makeCentralDirectoryEntryBytes(filename, crc, compressedSize, uncompressedSize, localHeaderOffset, fileComment) ==
    LET utf8Filename == Utf8Encode(filename)
        utf8FileComment == Utf8Encode(fileComment) IN
    ApplyWrites(Zeros(CentralEntryFixedLen + Len(utf8Filename) + Len(utf8FileComment)),
        << <<0, SigCentral>>, <<4, LE16(20)>>, <<6, LE16(20)>>, <<8, LE16(8)>>,
           <<10, LE16(0)>>, <<12, LE16(0)>>, <<14, LE16(0)>>, <<16, WLE32(crc)>>,
           <<20, setUint32(compressedSize)>>, <<24, setUint32(uncompressedSize)>>,
           <<28, LE16(Len(utf8Filename))>>, <<30, LE16(0)>>,
           <<32, LE16(Len(utf8FileComment))>>, <<34, LE16(0)>>, <<36, LE16(0)>>,
           <<38, LE32(0)>>, <<42, setUint32(localHeaderOffset)>>,
           <<46, utf8Filename>>, <<46 + Len(utf8Filename), utf8FileComment>> >>)

\* makeEOCDBytes with the size and the offset of the central directory
\* written into each other's field.
makeEOCDBytesSwapped(cdSize, cdOffset, numEntries, zipComment) ==
    LET utf8ZipComment == Utf8Encode(zipComment) IN
    ApplyWrites(Zeros(EOCDFixedLen + Len(utf8ZipComment)),
        << <<0, SigEOCD>>, <<4, LE16(0)>>, <<6, LE16(0)>>, <<8, LE16(numEntries)>>,
           <<10, LE16(numEntries)>>, <<12, setUint32(cdOffset)>>, <<16, setUint32(cdSize)>>,
           <<20, LE16(Len(utf8ZipComment))>>, <<22, utf8ZipComment>> >>)

makeEOCDBytes(cdSize, cdOffset, numEntries, zipComment) ==
    LET utf8ZipComment == Utf8Encode(zipComment) IN
    ApplyWrites(Zeros(EOCDFixedLen + Len(utf8ZipComment)),
        << <<0, SigEOCD>>, <<4, LE16(0)>>, <<6, LE16(0)>>, <<8, LE16(numEntries)>>,
           <<10, LE16(numEntries)>>, <<12, setUint32(cdSize)>>, <<16, setUint32(cdOffset)>>,
           <<20, LE16(Len(utf8ZipComment))>>, <<22, utf8ZipComment>> >>)

(***************************************************************************)
(* Inputs of a request: the ?repo= parameter, the registry's tree and the  *)
(* chunks a body stream may deliver.                                       *)
(***************************************************************************)
RepoParams == {<<>>, STR_noslash, STR_owner_model}

TreeEntries ==
    { [path |-> STR_a_txt, type |-> "file"],
      [path |-> STR_d_b_bin, type |-> "file"],
      [path |-> STR_long_name, type |-> "file"],
      [path |-> <<100>>, type |-> "directory"] }

\* A tree lists a path once.
Trees ==
    UNION { { t \in [1..n -> TreeEntries] :
                \A i, j \in 1..n : t[i].path = t[j].path => i = j } : n \in 0..MaxFiles }

\* Chunks of a body stream: an empty one, "hi" and three bytes.
BodyChunks == { <<>>, <<104, 105>>, <<0, 1, 2>> }

NoResponse == [status |-> 0]
NoRequest == [pc |-> "absent"]
Response(code) == [status |-> code]

VARIABLES
    pc,                              \* position of the handler
    repoParam,                       \* url.searchParams.get("repo"); <<>> when absent
    filePaths,                       \* paths of the tree entries of type file
    fileIdx,                         \* position of the for loop in filePaths
    centralDirectoryEntries,
    currentGlobalOffset,
    uploadedParts,                   \* receipts returned by uploadPart
    r2PartIndex,
    r2UploadBuffer,                  \* concat(...r2UploadBuffer)
    r2UploadBufferSize,
    pieceHashes,
    torrentPieceBufferArrays,        \* concat(...torrentPieceBufferArrays)
    torrentPieceBufferCurrentSize,
    totalZipSizeForTorrent,
    localHeaderFileOffset,
    currentFileCrc,
    currentFileRawLen,
    chunk,                           \* the chunk read last from upstream.body
    chunksRead,                      \* chunks the body streams of the request delivered
    remainingDataFromFilesBuffer,
    startOfCentralDirectoryOffset,
    zipTail,
    mpuState,                        \* the multipart upload in R2
    mpuParts,                        \* parts R2 holds for it, in submission order
    bucket,                          \* objects of env.BUCKET, by key
    response,
    sinkEnqueued,                    \* history: bytes handed to the multipart sink
    hasherFed,                       \* history: bytes handed to the piece hasher
    abortCalls,                      \* history: calls of mpu.abort()
    treeAnswer,                      \* history: how the tree request was answered
    sinkFailure,                     \* history: the sink operation that threw
    emitted,                         \* history: the bytes given to addDataToR2Stream
    fedBytes,                        \* history: the bytes given to the piece hasher
    framerCall,                      \* arguments and result of a framer that runs on its own
    parked,                          \* the state of a second request while this one runs
    bodyEndOffsets                   \* history: offset after the last body byte, per entry

sinkVars == <<currentGlobalOffset, uploadedParts, r2PartIndex, r2UploadBuffer,
              r2UploadBufferSize, mpuState, mpuParts, sinkEnqueued, abortCalls,
              sinkFailure, emitted>>
hasherVars == <<pieceHashes, torrentPieceBufferArrays, torrentPieceBufferCurrentSize,
                totalZipSizeForTorrent, hasherFed, fedBytes>>
fileVars == <<localHeaderFileOffset, currentFileCrc, currentFileRawLen, chunk, chunksRead>>
tailVars == <<remainingDataFromFilesBuffer, startOfCentralDirectoryOffset, zipTail>>
listVars == <<repoParam, filePaths, treeAnswer, framerCall, parked>>

vars == <<pc, listVars, fileIdx, centralDirectoryEntries, sinkVars, hasherVars,
          fileVars, tailVars, bucket, response, bodyEndOffsets>>

\* Derived names of the request.
repoParts == Split(repoParam, Slash)
username == repoParts[1]
repoNameOnly == Join(Tail(repoParts), Slash)
finalZipR2Key == username \o <<Slash>> \o repoNameOnly \o STR_zip
torrentR2Key == username \o <<Slash>> \o repoNameOnly \o STR_torrent
torrentInfoName == repoNameOnly \o STR_zip

Init ==
    /\ pc = "validate"
    /\ repoParam \in RepoParams
    /\ filePaths = <<>>
    /\ fileIdx = 1
    /\ centralDirectoryEntries = <<>>
    /\ currentGlobalOffset = 0
    /\ uploadedParts = <<>>
    /\ r2PartIndex = 1
    /\ r2UploadBuffer = <<>>
    /\ r2UploadBufferSize = 0
    /\ pieceHashes = <<>>
    /\ torrentPieceBufferArrays = <<>>
    /\ torrentPieceBufferCurrentSize = 0
    /\ totalZipSizeForTorrent = 0
    /\ localHeaderFileOffset = 0
    /\ currentFileCrc = <<0, 0>>
    /\ currentFileRawLen = 0
    /\ chunk = <<>>
    /\ chunksRead = 0
    /\ remainingDataFromFilesBuffer = <<>>
    /\ startOfCentralDirectoryOffset = 0
    /\ zipTail = <<>>
    /\ mpuState = "none"
    /\ mpuParts = <<>>
    /\ bucket = <<>>
    /\ response = NoResponse
    /\ sinkEnqueued = 0
    /\ hasherFed = 0
    /\ abortCalls = 0
    /\ treeAnswer = "none"
    /\ sinkFailure = "none"
    /\ emitted = <<>>
    /\ fedBytes = <<>>
    /\ framerCall = [fn |-> "none"]
    /\ parked = NoRequest
    /\ bodyEndOffsets = <<>>

(***************************************************************************)
(* Multipart sink: addDataToR2Stream and flushRemainingR2Stream            *)
(***************************************************************************)
RECURSIVE R2UploadLoopStrict(_, _)
\* The while loop with ">" in the place of ">=": a buffer of exactly one part
\* size is not uploaded.
R2UploadLoopStrict(s, failAt) ==
    IF s.size > R2_PART_SIZE_LIMIT
    THEN LET combined == s.buf
             chunkToUpload == SubSeq(combined, 1, R2_PART_SIZE_LIMIT)
             remainder == SubSeq(combined, R2_PART_SIZE_LIMIT + 1, Len(combined))
         IN  IF failAt = 0
             THEN [s EXCEPT !.idx = @ + 1, !.threw = TRUE]
             ELSE R2UploadLoopStrict(
                    [s EXCEPT !.idx = @ + 1,
                              !.receipts = Append(@, [partNumber |-> s.idx]),
                              !.parts = Append(@, [partNumber |-> s.idx,
                                                   data |-> chunkToUpload]),
                              !.buf = remainder,
                              !.size = Len(remainder)],
                    failAt - 1)
    ELSE s

RECURSIVE R2UploadLoop(_, _)
\* The while loop of addDataToR2Stream on the sink state s.  failAt is the
\* number of uploadPart calls that succeed before one throws (-1: none throws).
R2UploadLoop(s, failAt) ==
    IF s.size >= R2_PART_SIZE_LIMIT
    THEN LET combined == s.buf
             chunkToUpload == SubSeq(combined, 1, R2_PART_SIZE_LIMIT)
             remainder == SubSeq(combined, R2_PART_SIZE_LIMIT + 1, Len(combined))
         IN  IF failAt = 0
             THEN [s EXCEPT !.idx = @ + 1, !.threw = TRUE]
             ELSE R2UploadLoop(
                    [s EXCEPT !.idx = @ + 1,
                              !.receipts = Append(@, [partNumber |-> s.idx]),
                              !.parts = Append(@, [partNumber |-> s.idx,
                                                   data |-> chunkToUpload]),
                              !.buf = remainder,
                              !.size = Len(remainder)],
                    failAt - 1)
    ELSE s

\* await addDataToR2Stream(data), continuing at nextPc.  An uploadPart that
\* throws is followed by mpu.abort() (which may throw as well) and the error
\* reaches the catch block of fetch.
addDataToR2Stream(data, nextPc) ==
    IF Len(data) = 0
    THEN /\ pc' = nextPc
         /\ UNCHANGED sinkVars
    ELSE LET s0 == [buf |-> r2UploadBuffer \o data,
                    size |-> r2UploadBufferSize + Len(data),
                    idx |-> r2PartIndex,
                    receipts |-> uploadedParts,
                    parts |-> mpuParts,
                    threw |-> FALSE]
             uploads == s0.size \div R2_PART_SIZE_LIMIT
         IN  \E failAt \in -1..(uploads - 1), abortThrows \in BOOLEAN :
               LET s == R2UploadLoop(s0, failAt) IN
               /\ abortThrows => s.threw
               /\ r2UploadBuffer' = s.buf
               /\ r2UploadBufferSize' = s.size
               /\ r2PartIndex' = s.idx
               /\ uploadedParts' = s.receipts
               /\ mpuParts' = s.parts
               /\ currentGlobalOffset' = currentGlobalOffset + Len(data)
               /\ sinkEnqueued' = sinkEnqueued + Len(data)
               /\ emitted' = emitted \o data
               /\ IF s.threw
                  THEN /\ abortCalls' = abortCalls + 1
                       /\ mpuState' = IF abortThrows THEN mpuState ELSE "aborted"
                       /\ sinkFailure' = "uploadPart"
                       /\ pc' = "catch"
                  ELSE /\ UNCHANGED <<abortCalls, mpuState, sinkFailure>>
                       /\ pc' = nextPc

\* flushRemainingR2Stream() that empties the buffer before it reads it.
flushRemainingR2StreamAfterReset == <<>>

\* The value returned by flushRemainingR2Stream().
flushRemainingR2Stream == IF r2UploadBufferSize > 0 THEN r2UploadBuffer ELSE <<>>

(***************************************************************************)
(* Piece hasher: feedDataToTorrentHasher                                   *)
(***************************************************************************)
\* feedDataToTorrentHasher with "if" in the place of "while": at most one
\* piece is cut per call.
PieceLoopOnce(h) ==
    IF h.size >= TORRENT_PIECE_LENGTH
    THEN LET consolidatedBuffer == h.buf
             pieceData == SubSeq(consolidatedBuffer, 1, TORRENT_PIECE_LENGTH)
             remainder == SubSeq(consolidatedBuffer, TORRENT_PIECE_LENGTH + 1,
                                 Len(consolidatedBuffer))
         IN  [h EXCEPT !.hashes = Append(@, sha1(pieceData)),
                       !.buf = remainder,
                       !.size = Len(remainder)]
    ELSE h

RECURSIVE PieceLoop(_)
\* The while loop of feedDataToTorrentHasher on the hasher state h.
PieceLoop(h) ==
    IF h.size >= TORRENT_PIECE_LENGTH
    THEN LET consolidatedBuffer == h.buf
             pieceData == SubSeq(consolidatedBuffer, 1, TORRENT_PIECE_LENGTH)
             remainder == SubSeq(consolidatedBuffer, TORRENT_PIECE_LENGTH + 1,
                                 Len(consolidatedBuffer))
         IN  PieceLoop([h EXCEPT !.hashes = Append(@, sha1(pieceData)),
                                 !.buf = remainder,
                                 !.size = Len(remainder)])
    ELSE h

\* The hasher state after feedDataToTorrentHasher(data) on state h.
FeedResult(h, data) ==
    IF Len(data) = 0 THEN h
    ELSE PieceLoop([h EXCEPT !.buf = @ \o data,
                             !.size = @ + Len(data),
                             !.total = @ + Len(data)])

HasherState ==
    [hashes |-> pieceHashes, buf |-> torrentPieceBufferArrays,
     size |-> torrentPieceBufferCurrentSize, total |-> totalZipSizeForTorrent]

\* await feedDataToTorrentHasher(data)
feedDataToTorrentHasher(data) ==
    LET h == FeedResult(HasherState, data) IN
    /\ pieceHashes' = h.hashes
    /\ torrentPieceBufferArrays' = h.buf
    /\ torrentPieceBufferCurrentSize' = h.size
    /\ totalZipSizeForTorrent' = h.total
    /\ hasherFed' = hasherFed + Len(data)
    /\ fedBytes' = fedBytes \o data

(***************************************************************************)
(* Torrent metadata                                                        *)
(***************************************************************************)
STR_webseed_base ==      \* "https://gerbil.muggingface.co/"
    <<104, 116, 116, 112, 115, 58, 47, 47, 103, 101, 114, 98, 105, 108, 46, 109, 117, 103, 103, 105, 110, 103, 102, 97, 99, 101, 46, 99, 111, 47>>

webseedUrl == STR_webseed_base \o username \o <<Slash>> \o repoNameOnly \o STR_zip

\* String.prototype.endsWith
EndsWith(str, suffix) ==
    /\ Len(suffix) <= Len(str)
    /\ SubSeq(str, Len(str) - Len(suffix) + 1, Len(str)) = suffix

\* Math.ceil(a / b) for a >= 0, b > 0
Ceil(a, b) == (a + b - 1) \div b

RECURSIVE ByteLength(_)
\* concat(...pieceHashes).length
ByteLength(hashes) ==
    IF hashes = <<>> THEN 0 ELSE Head(hashes).byteLength + ByteLength(Tail(hashes))

\* pieceHashes after the remaining piece buffer has been hashed (lines 204-210).
WithLastPiece ==
    IF torrentPieceBufferCurrentSize > 0 /\ Len(torrentPieceBufferArrays) > 0
    THEN Append(pieceHashes, sha1(torrentPieceBufferArrays))
    ELSE pieceHashes

\* The strict metadata checks (lines 219-227) on the final piece list.
MetadataChecksPass(hashes) ==
    LET expectedNumPieces == Ceil(totalZipSizeForTorrent, TORRENT_PIECE_LENGTH) IN
    /\ Len(hashes) = expectedNumPieces
    /\ ByteLength(hashes) = expectedNumPieces * DigestLen
    /\ EndsWith(webseedUrl, torrentInfoName)

\* The dictionary handed to bencode.encode (an external library): the stored
\* torrent object is this dictionary.
TorrentData(hashes) ==
    [announce |-> "udp://tracker.openbittorrent.com:6969/announce",
     createdBy |-> "muggingface-worker",
     info |-> [name |-> torrentInfoName,
               pieceLength |-> TORRENT_PIECE_LENGTH,
               pieces |-> hashes,
               length |-> totalZipSizeForTorrent],
     urlList |-> <<webseedUrl>>]

(***************************************************************************)
(* R2                                                                      *)
(***************************************************************************)
\* BUCKET.put / the object a completed upload becomes
PutObject(b, key, obj) ==
    [k \in (DOMAIN b) \cup {key} |-> IF k = key THEN obj ELSE b[k]]

RECURSIVE AssembleParts(_, _)
\* mpu.complete(receipts): the data of the listed parts, in the order listed.
AssembleParts(receipts, parts) ==
    IF receipts = <<>> THEN <<>>
    ELSE LET n == Head(receipts).partNumber
             p == CHOOSE q \in {parts[i] : i \in 1..Len(parts)} : q.partNumber = n
         IN  p.data \o AssembleParts(Tail(receipts), parts)

\* mpu.complete read as if it were a flag that is set once the upload has
\* been completed.
MpuCompleteMemberAsFlag == mpuState = "completed"

\* mpu.complete as read by the catch block: a method of the upload object,
\* hence a truthy value at all times.
MpuCompleteMember == TRUE

\* The condition under which the catch block calls mpu.abort() (line 284).
CatchAborts == mpuState # "none" /\ ~MpuCompleteMember

(***************************************************************************)
(* fetch: the steps of the handler                                         *)
(***************************************************************************)
filenameForZip == LastSegment(filePaths[fileIdx])

\* Validate without the test on the number of parts of the repo parameter.
ValidateWithoutSlashTest ==
    /\ pc = "validate"
    /\ IF repoParam = <<>>
       THEN /\ response' = Response(400)
            /\ pc' = "done"
       ELSE /\ pc' = "list"
            /\ UNCHANGED response
    /\ UNCHANGED <<listVars, fileIdx, centralDirectoryEntries, sinkVars, hasherVars,
                   fileVars, tailVars, bucket, bodyEndOffsets>>

\* lines 16-26
Validate ==
    /\ pc = "validate"
    /\ IF repoParam = <<>> \/ Len(repoParts) < 2
       THEN /\ response' = Response(400)
            /\ pc' = "done"
       ELSE /\ pc' = "list"
            /\ UNCHANGED response
    /\ UNCHANGED <<listVars, fileIdx, centralDirectoryEntries, sinkVars, hasherVars,
                   fileVars, tailVars, bucket, bodyEndOffsets>>

\* filesData.filter(file => file.type === 'file').map(file => file.path)
FilePathsOf(filesData) ==
    LET files == SelectSeq(filesData, LAMBDA f : f.type = "file")
    IN  [i \in 1..Len(files) |-> files[i].path]

\* lines 28-44: the tree request; the answer is an HTTP error, a body that
\* is no JSON (apiResponse.json() throws outside the try block), no answer at
\* all (fetch throws outside the try block), or a tree.
ListFiles ==
    /\ pc = "list"
    /\ \E answer \in {"http_error", "bad_json", "network_error", "tree"},
          filesData \in Trees :
         /\ answer # "tree" => filesData = <<>>
         /\ treeAnswer' = answer
         /\ IF answer = "http_error"
            THEN /\ response' = Response(502)
                 /\ pc' = "done"
                 /\ UNCHANGED filePaths
            ELSE IF answer \in {"bad_json", "network_error"}
            THEN /\ pc' = "uncaught"
                 /\ UNCHANGED <<response, filePaths>>
            ELSE IF Len(FilePathsOf(filesData)) = 0
            THEN /\ response' = Response(404)
                 /\ pc' = "done"
                 /\ filePaths' = FilePathsOf(filesData)
            ELSE /\ filePaths' = FilePathsOf(filesData)
                 /\ pc' = "create"
                 /\ UNCHANGED response
    /\ UNCHANGED <<repoParam, framerCall, parked, fileIdx, centralDirectoryEntries,
                   sinkVars, hasherVars, fileVars, tailVars, bucket, bodyEndOffsets>>

\* lines 46-66: createMultipartUpload (outside the try block) and the state
\* of the request.
CreateUpload ==
    /\ pc = "create"
    /\ \E ok \in BOOLEAN :
         IF ok
         THEN /\ mpuState' = "open"
              /\ pc' = "file"
              /\ UNCHANGED sinkFailure
         ELSE /\ pc' = "uncaught"
              /\ sinkFailure' = "create"
              /\ UNCHANGED mpuState
    /\ UNCHANGED <<listVars, fileIdx, centralDirectoryEntries, currentGlobalOffset,
                   uploadedParts, r2PartIndex, r2UploadBuffer, r2UploadBufferSize,
                   mpuParts, sinkEnqueued, abortCalls, emitted, hasherVars, fileVars,
                   tailVars, bucket, response, bodyEndOffsets>>

\* BeginFile with the offset of the file taken after its local header has
\* gone to the sink.
BeginFileOffsetAfterHeader ==
    /\ pc = "file"
    /\ fileIdx <= Len(filePaths)
    /\ addDataToR2Stream(makeLocalHeader(filenameForZip), "hdrFeed")
    /\ localHeaderFileOffset' = currentGlobalOffset'
    /\ UNCHANGED <<listVars, fileIdx, centralDirectoryEntries, hasherVars,
                   currentFileCrc, currentFileRawLen, chunk, chunksRead, tailVars,
                   bucket, response, bodyEndOffsets>>

\* lines 124-130: the next path; its offset is taken and its local header
\* goes to the sink.
BeginFile ==
    /\ pc = "file"
    /\ fileIdx <= Len(filePaths)
    /\ localHeaderFileOffset' = currentGlobalOffset
    /\ addDataToR2Stream(makeLocalHeader(filenameForZip), "hdrFeed")
    /\ UNCHANGED <<listVars, fileIdx, centralDirectoryEntries, hasherVars,
                   currentFileCrc, currentFileRawLen, chunk, chunksRead, tailVars,
                   bucket, response, bodyEndOffsets>>

\* lines 131-134
FeedHeader ==
    /\ pc = "hdrFeed"
    /\ feedDataToTorrentHasher(makeLocalHeader(filenameForZip))
    /\ currentFileCrc' = <<0, 0>>
    /\ currentFileRawLen' = 0
    /\ pc' = "fetch"
    /\ UNCHANGED <<listVars, fileIdx, centralDirectoryEntries, sinkVars,
                   localHeaderFileOffset, chunk, chunksRead, tailVars, bucket,
                   response, bodyEndOffsets>>

\* The body request with a skip that goes back to the loop head without
\* moving to the next path.
FetchBodyRetrySamePath ==
    /\ pc = "fetch"
    /\ \E answer \in {"ok", "not_ok", "throws"} :
         pc' = CASE answer = "ok" -> "read"
                 [] answer = "not_ok" -> "file"
                 [] answer = "throws" -> "catch"
    /\ UNCHANGED <<listVars, fileIdx, centralDirectoryEntries, sinkVars, hasherVars,
                   localHeaderFileOffset, currentFileCrc, currentFileRawLen, chunk,
                   chunksRead, tailVars, bucket, response, bodyEndOffsets>>

\* lines 136-143: the body request.  A response that is not ok or has no
\* body skips the file (continue); a network error throws.
FetchBody ==
    /\ pc = "fetch"
    /\ \E answer \in {"ok", "not_ok", "throws"} :
         /\ pc' = CASE answer = "ok" -> "read"
                    [] answer = "not_ok" -> "file"
                    [] answer = "throws" -> "catch"
         /\ fileIdx' = IF answer = "not_ok" THEN fileIdx + 1 ELSE fileIdx
    /\ UNCHANGED <<listVars, centralDirectoryEntries, sinkVars, hasherVars,
                   localHeaderFileOffset, currentFileCrc, currentFileRawLen, chunk,
                   chunksRead, tailVars, bucket, response, bodyEndOffsets>>

\* lines 144-147: one chunk of the body
ReadChunk ==
    /\ pc = "read"
    /\ chunksRead < MaxChunks
    /\ \E c \in BodyChunks :
         /\ chunk' = c
         /\ currentFileCrc' = crc32(c, currentFileCrc)
         /\ currentFileRawLen' = currentFileRawLen + Len(c)
         /\ addDataToR2Stream(c, "chunkFeed")
    /\ chunksRead' = chunksRead + 1
    /\ UNCHANGED <<listVars, fileIdx, centralDirectoryEntries, hasherVars,
                   localHeaderFileOffset, tailVars, bucket, response, bodyEndOffsets>>

\* line 148
FeedChunk ==
    /\ pc = "chunkFeed"
    /\ feedDataToTorrentHasher(chunk)
    /\ pc' = "read"
    /\ UNCHANGED <<listVars, fileIdx, centralDirectoryEntries, sinkVars, fileVars,
                   tailVars, bucket, response, bodyEndOffsets>>

\* line 144: reading the body stream throws
ReadFails ==
    /\ pc = "read"
    /\ pc' = "catch"
    /\ UNCHANGED <<listVars, fileIdx, centralDirectoryEntries, sinkVars, hasherVars,
                   fileVars, tailVars, bucket, response, bodyEndOffsets>>

\* lines 151-152: the body has ended; the data descriptor goes to the sink
EndOfBody ==
    /\ pc = "read"
    /\ bodyEndOffsets' = Append(bodyEndOffsets, currentGlobalOffset)
    /\ addDataToR2Stream(makeDataDescriptor(currentFileCrc, Num(currentFileRawLen)), "descFeed")
    /\ UNCHANGED <<listVars, fileIdx, centralDirectoryEntries, hasherVars, fileVars,
                   tailVars, bucket, response>>

\* lines 153-160: the descriptor is hashed and the directory entry recorded
FeedDescriptor ==
    /\ pc = "descFeed"
    /\ feedDataToTorrentHasher(makeDataDescriptor(currentFileCrc, Num(currentFileRawLen)))
    /\ centralDirectoryEntries' =
         Append(centralDirectoryEntries,
                [filename |-> filenameForZip,
                 crc |-> currentFileCrc,
                 uncompressedSize |-> currentFileRawLen,
                 compressedSize |-> currentFileRawLen,
                 localHeaderOffset |-> localHeaderFileOffset])
    /\ fileIdx' = fileIdx + 1
    /\ pc' = "file"
    /\ UNCHANGED <<listVars, sinkVars, fileVars, tailVars, bucket, response,
                   bodyEndOffsets>>

\* line 163: after the last path, the sink buffer is taken out
FlushSink ==
    /\ pc = "file"
    /\ fileIdx > Len(filePaths)
    /\ remainingDataFromFilesBuffer' = flushRemainingR2Stream
    /\ r2UploadBuffer' = IF r2UploadBufferSize > 0 THEN <<>> ELSE r2UploadBuffer
    /\ r2UploadBufferSize' = IF r2UploadBufferSize > 0 THEN 0 ELSE r2UploadBufferSize
    /\ pc' = "flushFeed"
    /\ UNCHANGED <<listVars, fileIdx, centralDirectoryEntries, currentGlobalOffset,
                   uploadedParts, r2PartIndex, mpuState, mpuParts, sinkEnqueued,
                   abortCalls, sinkFailure, emitted, hasherVars, fileVars,
                   startOfCentralDirectoryOffset, zipTail, bucket, response,
                   bodyEndOffsets>>

\* line 164: the bytes taken out of the sink buffer are fed to the hasher
FeedFlushed ==
    /\ pc = "flushFeed"
    /\ feedDataToTorrentHasher(remainingDataFromFilesBuffer)
    /\ pc' = "tail"
    /\ UNCHANGED <<listVars, fileIdx, centralDirectoryEntries, sinkVars, fileVars,
                   tailVars, bucket, response, bodyEndOffsets>>

\* lines 169-172
fullCentralDirectory ==
    concat([i \in 1..Len(centralDirectoryEntries) |->
              LET entry == centralDirectoryEntries[i] IN
              makeCentralDirectoryEntryBytes(entry.filename, entry.crc,
                  Num(entry.compressedSize), Num(entry.uncompressedSize),
                  Num(entry.localHeaderOffset), <<>>)])

\* lines 167-178: central directory and EOCD, fed to the hasher
BuildTail ==
    /\ pc = "tail"
    /\ startOfCentralDirectoryOffset' = currentGlobalOffset
    /\ \E cdSize \in {Len(fullCentralDirectory)} :
         \E eocdBytes \in {makeEOCDBytes(Num(cdSize), Num(currentGlobalOffset),
                                         Len(centralDirectoryEntries), <<>>)} :
           /\ zipTail' = concat(<<fullCentralDirectory, eocdBytes>>)
           /\ feedDataToTorrentHasher(concat(<<fullCentralDirectory, eocdBytes>>))
    /\ pc' = "finalPart"
    /\ UNCHANGED <<listVars, fileIdx, centralDirectoryEntries, sinkVars, fileVars,
                   remainingDataFromFilesBuffer, bucket, response, bodyEndOffsets>>

\* The final part made of the flushed bytes only, the tail left out.
finalR2UploadDataWithoutTail == remainingDataFromFilesBuffer

finalR2UploadData == concat(<<remainingDataFromFilesBuffer, zipTail>>)

\* lines 180-191: the final part
FinalPart ==
    /\ pc = "finalPart"
    /\ \E ok \in BOOLEAN :
         IF Len(finalR2UploadData) > 0
         THEN /\ r2PartIndex' = r2PartIndex + 1
              /\ IF ok
                 THEN /\ uploadedParts' = Append(uploadedParts, [partNumber |-> r2PartIndex])
                      /\ mpuParts' = Append(mpuParts, [partNumber |-> r2PartIndex,
                                                       data |-> finalR2UploadData])
                      /\ sinkEnqueued' = sinkEnqueued + Len(zipTail)
                      /\ pc' = "complete"
                      /\ UNCHANGED sinkFailure
                 ELSE /\ pc' = "catch"
                      /\ sinkFailure' = "finalPart"
                      /\ UNCHANGED <<uploadedParts, mpuParts, sinkEnqueued>>
              /\ UNCHANGED <<mpuState, abortCalls, response>>
         ELSE IF Len(uploadedParts) = 0
         THEN /\ abortCalls' = abortCalls + 1
              /\ IF ok
                 THEN /\ mpuState' = "aborted"
                      /\ response' = Response(400)
                      /\ pc' = "done"
                 ELSE /\ pc' = "catch"
                      /\ UNCHANGED <<mpuState, response>>
              /\ UNCHANGED <<r2PartIndex, uploadedParts, mpuParts, sinkEnqueued,
                             sinkFailure>>
         ELSE /\ ok
              /\ pc' = "complete"
              /\ UNCHANGED <<r2PartIndex, uploadedParts, mpuParts, sinkEnqueued,
                             mpuState, abortCalls, response, sinkFailure>>
    /\ UNCHANGED <<listVars, fileIdx, centralDirectoryEntries, currentGlobalOffset,
                   r2UploadBuffer, r2UploadBufferSize, emitted, hasherVars, fileVars,
                   tailVars, bucket, bodyEndOffsets>>

\* An error thrown by mpu.complete that is swallowed: the handler goes on.
AfterCompleteFailureSwallowed == "torrent"

\* Where an error thrown by mpu.complete goes: the catch block of fetch.
AfterCompleteFailure == "catch"

\* line 197: mpu.complete(uploadedParts)
CompleteUpload ==
    /\ pc = "complete"
    /\ \E ok \in BOOLEAN :
         IF ok
         THEN /\ mpuState' = "completed"
              /\ bucket' = PutObject(bucket, finalZipR2Key,
                                     [contentType |-> "application/zip",
                                      body |-> AssembleParts(uploadedParts, mpuParts)])
              /\ pc' = "torrent"
              /\ UNCHANGED sinkFailure
         ELSE /\ pc' = AfterCompleteFailure
              /\ sinkFailure' = "complete"
              /\ UNCHANGED <<mpuState, bucket>>
    /\ UNCHANGED <<listVars, fileIdx, centralDirectoryEntries, currentGlobalOffset,
                   uploadedParts, r2PartIndex, r2UploadBuffer, r2UploadBufferSize,
                   mpuParts, sinkEnqueued, abortCalls, emitted, hasherVars, fileVars,
                   tailVars, response, bodyEndOffsets>>

\* lines 203-280: last piece, metadata checks, the torrent put, the answer
StoreTorrent ==
    /\ pc = "torrent"
    /\ pieceHashes' = WithLastPiece
    /\ \E ok \in BOOLEAN :
         IF MetadataChecksPass(WithLastPiece) /\ ok
         THEN /\ bucket' = PutObject(bucket, torrentR2Key,
                                     [contentType |-> "application/x-bittorrent",
                                      body |-> TorrentData(WithLastPiece)])
              /\ response' = Response(200)
              /\ pc' = "done"
         ELSE /\ pc' = "catch"
              /\ UNCHANGED <<bucket, response>>
    /\ UNCHANGED <<listVars, fileIdx, centralDirectoryEntries, sinkVars,
                   torrentPieceBufferArrays, torrentPieceBufferCurrentSize,
                   totalZipSizeForTorrent, hasherFed, fedBytes, fileVars, tailVars,
                   bodyEndOffsets>>

\* lines 281-294: the catch block
Catch ==
    /\ pc = "catch"
    /\ IF CatchAborts
       THEN /\ abortCalls' = abortCalls + 1
            /\ \E ok \in BOOLEAN : mpuState' = IF ok THEN "aborted" ELSE mpuState
       ELSE UNCHANGED <<abortCalls, mpuState>>
    /\ response' = Response(500)
    /\ pc' = "done"
    /\ UNCHANGED <<listVars, fileIdx, centralDirectoryEntries, currentGlobalOffset,
                   uploadedParts, r2PartIndex, r2UploadBuffer, r2UploadBufferSize,
                   mpuParts, sinkEnqueued, sinkFailure, emitted, hasherVars, fileVars,
                   tailVars, bucket, bodyEndOffsets>>

Next ==
    \/ Validate
    \/ ListFiles
    \/ CreateUpload
    \/ BeginFile
    \/ FeedHeader
    \/ FetchBody
    \/ ReadChunk
    \/ FeedChunk
    \/ ReadFails
    \/ EndOfBody
    \/ FeedDescriptor
    \/ FlushSink
    \/ FeedFlushed
    \/ BuildTail
    \/ FinalPart
    \/ CompleteUpload
    \/ StoreTorrent
    \/ Catch

Spec == Init /\ [][Next]_vars

(***************************************************************************)
(* The piece hasher on its own: one byte stream is fed to                  *)
(* feedDataToTorrentHasher in chunks of any of the lengths FeedLengths,    *)
(* then the last piece is hashed.                                          *)
(***************************************************************************)
StreamByte(i) == (i * 7 + 3) % 256

\* The next n bytes of the stream after those fed so far.
NextBytes(n) == [i \in 1..n |-> StreamByte(Len(fedBytes) + i)]

FeedLengths ==
    {0, 1, 2, TORRENT_PIECE_LENGTH - 1, TORRENT_PIECE_LENGTH,
     TORRENT_PIECE_LENGTH + 1, 2 * TORRENT_PIECE_LENGTH + 1}

InitHasher ==
    /\ pc = "feeding"
    /\ repoParam = STR_owner_model
    /\ filePaths = <<>>
    /\ fileIdx = 1
    /\ centralDirectoryEntries = <<>>
    /\ currentGlobalOffset = 0
    /\ uploadedParts = <<>>
    /\ r2PartIndex = 1
    /\ r2UploadBuffer = <<>>
    /\ r2UploadBufferSize = 0
    /\ pieceHashes = <<>>
    /\ torrentPieceBufferArrays = <<>>
    /\ torrentPieceBufferCurrentSize = 0
    /\ totalZipSizeForTorrent = 0
    /\ localHeaderFileOffset = 0
    /\ currentFileCrc = <<0, 0>>
    /\ currentFileRawLen = 0
    /\ chunk = <<>>
    /\ chunksRead = 0
    /\ remainingDataFromFilesBuffer = <<>>
    /\ startOfCentralDirectoryOffset = 0
    /\ zipTail = <<>>
    /\ mpuState = "none"
    /\ mpuParts = <<>>
    /\ bucket = <<>>
    /\ response = NoResponse
    /\ sinkEnqueued = 0
    /\ hasherFed = 0
    /\ abortCalls = 0
    /\ treeAnswer = "none"
    /\ sinkFailure = "none"
    /\ emitted = <<>>
    /\ fedBytes = <<>>
    /\ framerCall = [fn |-> "none"]
    /\ parked = NoRequest
    /\ bodyEndOffsets = <<>>

\* one call of feedDataToTorrentHasher
FeedAny ==
    /\ pc = "feeding"
    /\ \E n \in FeedLengths :
         /\ Len(fedBytes) + n <= MaxFed
         /\ feedDataToTorrentHasher(NextBytes(n))
    /\ UNCHANGED <<pc, listVars, fileIdx, centralDirectoryEntries, sinkVars, fileVars,
                   tailVars, bucket, response, bodyEndOffsets>>

\* lines 203-210: the bytes left in the piece buffer become the last piece
FinalizePieces ==
    /\ pc = "feeding"
    /\ pieceHashes' = WithLastPiece
    /\ pc' = "finalized"
    /\ UNCHANGED <<listVars, fileIdx, centralDirectoryEntries, sinkVars,
                   torrentPieceBufferArrays, torrentPieceBufferCurrentSize,
                   totalZipSizeForTorrent, hasherFed, fedBytes, fileVars, tailVars,
                   bucket, response, bodyEndOffsets>>

NextHasher ==
    \/ FeedAny
    \/ FinalizePieces

SpecHasher == InitHasher /\ [][NextHasher]_vars

(***************************************************************************)
(* The framers on their own: makeDataDescriptor,                           *)
(* makeCentralDirectoryEntryBytes and makeEOCDBytes are called once with   *)
(* sizes and offsets below and above 2^32.                                 *)
(***************************************************************************)
WideNumbers ==
    { <<top, hi, lo>> : top \in 0..MaxTop, hi \in {0, 32768, 65535}, lo \in {0, 1, 65535} }

InitFramer ==
    /\ pc = "frame"
    /\ repoParam = STR_owner_model
    /\ filePaths = <<>>
    /\ fileIdx = 1
    /\ centralDirectoryEntries = <<>>
    /\ currentGlobalOffset = 0
    /\ uploadedParts = <<>>
    /\ r2PartIndex = 1
    /\ r2UploadBuffer = <<>>
    /\ r2UploadBufferSize = 0
    /\ pieceHashes = <<>>
    /\ torrentPieceBufferArrays = <<>>
    /\ torrentPieceBufferCurrentSize = 0
    /\ totalZipSizeForTorrent = 0
    /\ localHeaderFileOffset = 0
    /\ currentFileCrc = <<0, 0>>
    /\ currentFileRawLen = 0
    /\ chunk = <<>>
    /\ chunksRead = 0
    /\ remainingDataFromFilesBuffer = <<>>
    /\ startOfCentralDirectoryOffset = 0
    /\ zipTail = <<>>
    /\ mpuState = "none"
    /\ mpuParts = <<>>
    /\ bucket = <<>>
    /\ response = NoResponse
    /\ sinkEnqueued = 0
    /\ hasherFed = 0
    /\ abortCalls = 0
    /\ treeAnswer = "none"
    /\ sinkFailure = "none"
    /\ emitted = <<>>
    /\ fedBytes = <<>>
    /\ framerCall = [fn |-> "none"]
    /\ parked = NoRequest
    /\ bodyEndOffsets = <<>>

framerRest == <<repoParam, filePaths, treeAnswer, parked, fileIdx,
                centralDirectoryEntries, sinkVars, hasherVars, fileVars, tailVars,
                bucket, response, bodyEndOffsets>>

\* makeDataDescriptor(crc, size)
FrameDescriptor ==
    /\ pc = "frame"
    /\ \E crc \in {<<0, 0>>, crc32(<<104, 105>>, <<0, 0>>)}, size \in WideNumbers :
         framerCall' = [fn |-> "makeDataDescriptor", crc |-> crc, size |-> size,
                        bytes |-> makeDataDescriptor(crc, size)]
    /\ pc' = "framed"
    /\ UNCHANGED framerRest

\* makeCentralDirectoryEntryBytes(filename, crc, size, size, localHeaderOffset, "")
FrameCentralEntry ==
    /\ pc = "frame"
    /\ \E size \in WideNumbers, localHeaderOffset \in WideNumbers :
         framerCall' = [fn |-> "makeCentralDirectoryEntryBytes",
                        filename |-> STR_a_txt, size |-> size,
                        localHeaderOffset |-> localHeaderOffset,
                        bytes |-> makeCentralDirectoryEntryBytes(STR_a_txt, <<0, 0>>,
                                      size, size, localHeaderOffset, <<>>)]
    /\ pc' = "framed"
    /\ UNCHANGED framerRest

\* makeEOCDBytes(cdSize, cdOffset, numEntries, "")
FrameEOCD ==
    /\ pc = "frame"
    /\ \E cdSize \in WideNumbers, cdOffset \in WideNumbers :
         framerCall' = [fn |-> "makeEOCDBytes", cdSize |-> cdSize, cdOffset |-> cdOffset,
                        bytes |-> makeEOCDBytes(cdSize, cdOffset, 1, <<>>)]
    /\ pc' = "framed"
    /\ UNCHANGED framerRest

NextFramer ==
    \/ FrameDescriptor
    \/ FrameCentralEntry
    \/ FrameEOCD

SpecFramer == InitFramer /\ [][NextFramer]_vars

(***************************************************************************)
(* Two requests for the same repository. Every variable of the handler is  *)
(* a local of one invocation of fetch (lines 46-66 are declared inside the *)
(* handler), so each request has its own copy; env.BUCKET is the one thing *)
(* both reach. The variables of the module are those of the request that   *)
(* runs, parked holds those of the request that waits, and SwitchRequest   *)
(* hands the processor over at an await. The requests are followed through *)
(* the runs that answer 200, and they change places only where the running *)
(* one is about to touch an object of the bucket or has finished: the      *)
(* steps before that touch nothing the other request can see.              *)
(***************************************************************************)
ThisRequest ==
    [pc |-> pc,
     repoParam |-> repoParam,
     filePaths |-> filePaths,
     treeAnswer |-> treeAnswer,
     fileIdx |-> fileIdx,
     centralDirectoryEntries |-> centralDirectoryEntries,
     currentGlobalOffset |-> currentGlobalOffset,
     uploadedParts |-> uploadedParts,
     r2PartIndex |-> r2PartIndex,
     r2UploadBuffer |-> r2UploadBuffer,
     r2UploadBufferSize |-> r2UploadBufferSize,
     mpuState |-> mpuState,
     mpuParts |-> mpuParts,
     sinkEnqueued |-> sinkEnqueued,
     abortCalls |-> abortCalls,
     sinkFailure |-> sinkFailure,
     emitted |-> emitted,
     pieceHashes |-> pieceHashes,
     torrentPieceBufferArrays |-> torrentPieceBufferArrays,
     torrentPieceBufferCurrentSize |-> torrentPieceBufferCurrentSize,
     totalZipSizeForTorrent |-> totalZipSizeForTorrent,
     hasherFed |-> hasherFed,
     fedBytes |-> fedBytes,
     localHeaderFileOffset |-> localHeaderFileOffset,
     currentFileCrc |-> currentFileCrc,
     currentFileRawLen |-> currentFileRawLen,
     chunk |-> chunk,
     chunksRead |-> chunksRead,
     remainingDataFromFilesBuffer |-> remainingDataFromFilesBuffer,
     startOfCentralDirectoryOffset |-> startOfCentralDirectoryOffset,
     zipTail |-> zipTail,
     response |-> response,
     bodyEndOffsets |-> bodyEndOffsets]

SwitchPoints == {"complete", "torrent", "done"}

InitTwo ==
    /\ pc = "validate"
    /\ repoParam = STR_owner_model
    /\ filePaths = <<>>
    /\ treeAnswer = "none"
    /\ fileIdx = 1
    /\ centralDirectoryEntries = <<>>
    /\ currentGlobalOffset = 0
    /\ uploadedParts = <<>>
    /\ r2PartIndex = 1
    /\ r2UploadBuffer = <<>>
    /\ r2UploadBufferSize = 0
    /\ mpuState = "none"
    /\ mpuParts = <<>>
    /\ sinkEnqueued = 0
    /\ abortCalls = 0
    /\ sinkFailure = "none"
    /\ emitted = <<>>
    /\ pieceHashes = <<>>
    /\ torrentPieceBufferArrays = <<>>
    /\ torrentPieceBufferCurrentSize = 0
    /\ totalZipSizeForTorrent = 0
    /\ hasherFed = 0
    /\ fedBytes = <<>>
    /\ localHeaderFileOffset = 0
    /\ currentFileCrc = <<0, 0>>
    /\ currentFileRawLen = 0
    /\ chunk = <<>>
    /\ chunksRead = 0
    /\ remainingDataFromFilesBuffer = <<>>
    /\ startOfCentralDirectoryOffset = 0
    /\ zipTail = <<>>
    /\ response = NoResponse
    /\ bodyEndOffsets = <<>>
    /\ bucket = <<>>
    /\ framerCall = [fn |-> "none"]
    /\ parked = ThisRequest

\* an await of the running request lets the other one continue
SwitchRequest ==
    /\ parked.pc # "absent"
    /\ pc \in SwitchPoints
    /\ parked' = ThisRequest
    /\ pc' = parked.pc
    /\ repoParam' = parked.repoParam
    /\ filePaths' = parked.filePaths
    /\ treeAnswer' = parked.treeAnswer
    /\ fileIdx' = parked.fileIdx
    /\ centralDirectoryEntries' = parked.centralDirectoryEntries
    /\ currentGlobalOffset' = parked.currentGlobalOffset
    /\ uploadedParts' = parked.uploadedParts
    /\ r2PartIndex' = parked.r2PartIndex
    /\ r2UploadBuffer' = parked.r2UploadBuffer
    /\ r2UploadBufferSize' = parked.r2UploadBufferSize
    /\ mpuState' = parked.mpuState
    /\ mpuParts' = parked.mpuParts
    /\ sinkEnqueued' = parked.sinkEnqueued
    /\ abortCalls' = parked.abortCalls
    /\ sinkFailure' = parked.sinkFailure
    /\ emitted' = parked.emitted
    /\ pieceHashes' = parked.pieceHashes
    /\ torrentPieceBufferArrays' = parked.torrentPieceBufferArrays
    /\ torrentPieceBufferCurrentSize' = parked.torrentPieceBufferCurrentSize
    /\ totalZipSizeForTorrent' = parked.totalZipSizeForTorrent
    /\ hasherFed' = parked.hasherFed
    /\ fedBytes' = parked.fedBytes
    /\ localHeaderFileOffset' = parked.localHeaderFileOffset
    /\ currentFileCrc' = parked.currentFileCrc
    /\ currentFileRawLen' = parked.currentFileRawLen
    /\ chunk' = parked.chunk
    /\ chunksRead' = parked.chunksRead
    /\ remainingDataFromFilesBuffer' = parked.remainingDataFromFilesBuffer
    /\ startOfCentralDirectoryOffset' = parked.startOfCentralDirectoryOffset
    /\ zipTail' = parked.zipTail
    /\ response' = parked.response
    /\ bodyEndOffsets' = parked.bodyEndOffsets
    /\ UNCHANGED <<bucket, framerCall>>

\* the tree both requests are given, and the runs that are followed
SuccessfulRun ==
    /\ pc \notin {"catch", "uncaught"}
    /\ treeAnswer \in {"none", "tree"}
    /\ filePaths \in {<<>>, <<STR_a_txt, STR_d_b_bin>>}
    /\ pc = "done" => response = Response(200)

NextTwo ==
    \/ Next /\ SuccessfulRun'
    \/ SwitchRequest

SpecTwo == InitTwo /\ [][NextTwo]_vars

(***************************************************************************)
(* Reading a stored archive, as a ZIP reader does: the EOCD is its last 22 *)
(* bytes (no archive comment), the central directory is found through it.  *)
(***************************************************************************)
ArchiveStored == finalZipR2Key \in DOMAIN bucket
Archive == bucket[finalZipR2Key].body
TorrentStored == torrentR2Key \in DOMAIN bucket
Torrent == bucket[torrentR2Key].body

EocdAt(z) == Len(z) - EOCDFixedLen
EocdEntries(z) == RdLE16(z, EocdAt(z) + 10)
EocdCdSize(z) == RdLE32(z, EocdAt(z) + 12)
EocdCdOffset(z) == RdLE32(z, EocdAt(z) + 16)

RECURSIVE ParseCentral(_, _, _)
\* The n central-directory entries of z that begin at offset q.
ParseCentral(z, q, n) ==
    IF n = 0 THEN <<>>
    ELSE LET nameLen == RdLE16(z, q + 28)
             extraLen == RdLE16(z, q + 30)
             commentLen == RdLE16(z, q + 32)
         IN  << [signature |-> BytesAt(z, q, 4),
                 crc |-> BytesAt(z, q + 16, 4),
                 compressedSize |-> RdLE32(z, q + 20),
                 uncompressedSize |-> RdLE32(z, q + 24),
                 localHeaderOffset |-> RdLE32(z, q + 42),
                 name |-> BytesAt(z, q + CentralEntryFixedLen, nameLen)] >>
             \o ParseCentral(z, q + CentralEntryFixedLen + nameLen + extraLen + commentLen,
                             n - 1)

CentralEntries(z) == ParseCentral(z, EocdCdOffset(z), EocdEntries(z))

\* z holds, at offset at, a local file header that carries name.
LocalHeaderAt(z, at, name) ==
    /\ BytesAt(z, at, 4) = SigLocal
    /\ RdLE16(z, at + 26) = Len(name)
    /\ BytesAt(z, at + LocalHeaderFixedLen, Len(name)) = name

\* The length of the (local header, body, data descriptor) triple of entry e.
TripleLen(e) ==
    LocalHeaderFixedLen + Len(e.name) + e.uncompressedSize + DataDescriptorLen

RECURSIVE TriplesFrom(_, _, _)
\* From offset at on, z holds the triples of the entries es one after the
\* other, each with its header and its descriptor, and they end at offset end.
TriplesFrom(z, at, es) ==
    IF es = <<>> THEN at
    ELSE LET e == Head(es) IN
         IF /\ LocalHeaderAt(z, at, e.name)
            /\ BytesAt(z, at + TripleLen(e) - DataDescriptorLen, 4) = e.crc
            /\ RdLE32(z, at + TripleLen(e) - 8) = e.uncompressedSize
         THEN TriplesFrom(z, at + TripleLen(e), Tail(es))
         ELSE -1

RECURSIVE SumLen(_)
SumLen(parts) == IF parts = <<>> THEN 0 ELSE Len(Head(parts).data) + SumLen(Tail(parts))

RECURSIVE PieceData(_)
\* The bytes hashed into the pieces, in piece order.
PieceData(hashes) ==
    IF hashes = <<>> THEN <<>> ELSE Head(hashes).digestOf \o PieceData(Tail(hashes))

(***************************************************************************)
(* Properties                                                              *)
(***************************************************************************)

\* C1: between two emissions, from the first local header up to the point
\* where the tail is built, the archive offset equals the number of bytes
\* handed to the multipart sink and the number of bytes fed to the hasher.
C1_OffsetCountsSinkAndHasher ==
    pc \in {"file", "fetch", "read", "flushFeed", "tail"} =>
        /\ currentGlobalOffset = sinkEnqueued
        /\ currentGlobalOffset = hasherFed

\* C2: a stored torrent's info.length is the length of the stored archive,
\* the sum of the sizes of the parts passed to complete.
C2_InfoLengthIsArchiveLength ==
    TorrentStored =>
        /\ Torrent.info.length = Len(Archive)
        /\ Torrent.info.length = SumLen(mpuParts)

\* C3: the bytes hashed into the pieces of a stored torrent, in piece order,
\* are the archive: every piece but the last has piece_length bytes, the last
\* one the remainder, no byte twice and none left out.
C3_PiecesCoverArchive ==
    TorrentStored =>
        LET pieces == Torrent.info.pieces IN
        /\ PieceData(pieces) = Archive
        /\ \A i \in 1..Len(pieces) :
             /\ i < Len(pieces) => Len(pieces[i].digestOf) = TORRENT_PIECE_LENGTH
             /\ Len(pieces[i].digestOf) \in 1..TORRENT_PIECE_LENGTH

\* C4: the parts submitted are numbered 1..N in submission order, none is
\* larger than the part size limit, and every part but the last has at least
\* the minimum part size (the same limit); the final part included.
C4_PartsNumberedAndBounded ==
    \A i \in 1..Len(mpuParts) :
        /\ mpuParts[i].partNumber = i
        /\ Len(mpuParts[i].data) <= R2_PART_SIZE_LIMIT
        /\ i < Len(mpuParts) => Len(mpuParts[i].data) >= R2_PART_SIZE_LIMIT

\* C5: an error response after a fatal error in the pipeline body is
\* preceded by an attempt to abort the multipart upload.
C5_AbortBeforeErrorResponse ==
    (pc = "done" /\ response.status = 500) => abortCalls > 0

\* C6: a file whose body cannot be fetched adds nothing to the archive: when
\* it is skipped the archive offset is the one recorded before the file.
C6_SkippedFileLeavesOffset ==
    [][(pc = "fetch" /\ pc' = "file") => currentGlobalOffset' = localHeaderFileOffset]_vars

\* C7: the bytes of a completed archive before the central directory are the
\* (local header, body, data descriptor) triples of the directory entries, in
\* order and nothing else, and the EOCD counts these entries.
C7_ArchiveIsTriplesThenDirectory ==
    ArchiveStored =>
        /\ EocdEntries(Archive) = Len(centralDirectoryEntries)
        /\ TriplesFrom(Archive, 0, CentralEntries(Archive)) = EocdCdOffset(Archive)

\* C8: the torrent object is written only after complete has succeeded on
\* the multipart upload; a request that ends without a successful complete
\* has written no torrent.
C8_TorrentOnlyAfterComplete ==
    /\ TorrentStored => (mpuState = "completed" /\ ArchiveStored)
    /\ (pc = "done" /\ mpuState # "completed") => ~TorrentStored

C8_Witness ==
    pc = "done" /\ TorrentStored /\ mpuState = "completed"

\* C9: in a completed archive the EOCD's central-directory offset plus its
\* central-directory size plus 22 is the archive length, which is the sum of
\* the sizes of the uploaded parts, and the offset is the number of archive
\* bytes that precede the first byte of the central directory.
C9_EocdLocatesDirectory ==
    ArchiveStored =>
        /\ EocdCdOffset(Archive) + EocdCdSize(Archive) + EOCDFixedLen = Len(Archive)
        /\ Len(Archive) = SumLen(mpuParts)
        /\ EocdCdOffset(Archive) = Len(Archive) - Len(zipTail)
        /\ BytesAt(Archive, EocdCdOffset(Archive), Len(zipTail)) = zipTail
        /\ \/ EocdEntries(Archive) = 0
           \/ BytesAt(Archive, EocdCdOffset(Archive), 4) = SigCentral

C9_Witness ==
    /\ ArchiveStored
    /\ Len(mpuParts) >= 3
    /\ EocdEntries(Archive) >= 2

\* C10: every central-directory entry of a completed archive points at the
\* local header of its own file, the offsets of successive entries increase
\* strictly, and the header ends no later than the offset recorded after the
\* file's last body byte; also when earlier files were skipped.
C10_EntriesPointAtTheirHeaders ==
    ArchiveStored =>
        LET es == CentralEntries(Archive) IN
        /\ Len(es) = Len(centralDirectoryEntries)
        /\ \A i \in 1..Len(es) :
             /\ es[i].localHeaderOffset = centralDirectoryEntries[i].localHeaderOffset
             /\ es[i].name = Utf8Encode(centralDirectoryEntries[i].filename)
             /\ LocalHeaderAt(Archive, es[i].localHeaderOffset, es[i].name)
             /\ es[i].localHeaderOffset + LocalHeaderFixedLen + Len(es[i].name)
                    <= bodyEndOffsets[i]
             /\ i > 1 => es[i - 1].localHeaderOffset < es[i].localHeaderOffset

C10_Witness ==
    /\ ArchiveStored
    /\ Len(centralDirectoryEntries) >= 2
    /\ centralDirectoryEntries[1].localHeaderOffset > 0

(***************************************************************************)
(* What a request holds in R2: a multipart upload, parts, objects.         *)
(***************************************************************************)
NothingAcquired ==
    /\ mpuState = "none"
    /\ mpuParts = <<>>
    /\ uploadedParts = <<>>
    /\ abortCalls = 0
    /\ bucket = <<>>

HasSlash(str) == \E i \in 1..Len(str) : str[i] = Slash

\* C11: a request that fails before the pipeline starts acquires nothing: a
\* missing repo parameter and one without a slash end in 400, a tree request
\* answered without success ends in 502, a tree without file entries ends in
\* 404, and in each case no multipart upload exists and no object is written.
C11_EarlyFailuresAcquireNothing ==
    /\ (pc # "validate" /\ repoParam = <<>>) =>
           (pc = "done" /\ response = Response(400) /\ NothingAcquired)
    /\ (pc # "validate" /\ repoParam # <<>> /\ ~HasSlash(repoParam)) =>
           (pc = "done" /\ response = Response(400) /\ NothingAcquired)
    /\ treeAnswer = "http_error" =>
           (pc = "done" /\ response = Response(502) /\ NothingAcquired)
    /\ (treeAnswer = "tree" /\ filePaths = <<>>) =>
           (pc = "done" /\ response = Response(404) /\ NothingAcquired)
    /\ response.status \in {400, 502, 404} => NothingAcquired

C11_Witness ==
    /\ pc = "done"
    /\ treeAnswer = "tree"
    /\ filePaths = <<>>
    /\ response = Response(404)

\* C12: a tree request that fails in either of its two ways, a response
\* without success status or a body that cannot be parsed, ends the request
\* in 502 with nothing acquired.
C12_ListFailureIs502 ==
    treeAnswer \in {"http_error", "bad_json"} =>
        (pc = "done" /\ response = Response(502) /\ NothingAcquired)

\* C13: a failure of any sink operation (create, an uploadPart, complete) is
\* fatal: the handler goes to its error exit, the response it returns is a
\* 5xx, and no torrent is written.
C13_SinkFailureIs5xx ==
    sinkFailure # "none" =>
        /\ pc \in {"catch", "done"}
        /\ pc = "done" => response.status >= 500
        /\ ~TorrentStored

(***************************************************************************)
(* The bytes R2 holds for the upload and the bytes the request still holds *)
(***************************************************************************)
UploadedBytes == AssembleParts(uploadedParts, mpuParts)

\* The final part has not been uploaded: the tail has not gone to R2.
BeforeFinalPart == sinkEnqueued = currentGlobalOffset

\* C14 (as stated): up to the upload of the final part, the uploaded parts
\* followed by the sink's pending buffer are the archive bytes produced so
\* far, also between the flush of the buffer and the upload of the final part.
C14_PartsThenBufferArePrefix ==
    BeforeFinalPart =>
        /\ UploadedBytes \o r2UploadBuffer = emitted
        /\ Len(emitted) = currentGlobalOffset

\* C14 (amended): up to the upload of the final part, the uploaded parts,
\* followed by the sink's pending buffer, followed by the bytes the flush took
\* out of that buffer and the request holds until the final part, are the
\* archive bytes produced so far, of length A; a completed archive is these
\* bytes followed by the tail.
C14_PartsThenHeldBytesArePrefix ==
    /\ BeforeFinalPart =>
          /\ UploadedBytes \o r2UploadBuffer \o remainingDataFromFilesBuffer = emitted
          /\ Len(emitted) = currentGlobalOffset
          /\ r2UploadBuffer = <<>> \/ remainingDataFromFilesBuffer = <<>>
    /\ ArchiveStored => Archive = emitted \o zipTail

C14_Witness ==
    /\ pc \in {"flushFeed", "tail", "finalPart"}
    /\ mpuParts # <<>>
    /\ remainingDataFromFilesBuffer # <<>>
    /\ r2UploadBuffer = <<>>

(***************************************************************************)
(* The two-file scenario: a.txt with the body "hi", then b.bin with the    *)
(* body 0, 1, 2; both bodies are delivered and the archive is completed.   *)
(***************************************************************************)
STR_b_bin == <<98, 46, 98, 105, 110>>

TwoFileScenario ==
    /\ ArchiveStored
    /\ filePaths = <<STR_a_txt, STR_d_b_bin>>
    /\ Len(centralDirectoryEntries) = 2
    /\ centralDirectoryEntries[1].uncompressedSize = 2
    /\ centralDirectoryEntries[2].uncompressedSize = 3

\* C15: in the two-file scenario the local header of a.txt is at offset 0
\* and its descriptor ends at 49, the local header of b.bin is at 49 and its
\* descriptor ends at 99, the central directory starts at 99 and is 102 bytes
\* long, and the archive is 223 bytes long.
C15_TwoFileLayout ==
    TwoFileScenario =>
        LET es == CentralEntries(Archive) IN
        /\ Len(es) = 2
        /\ es[1].localHeaderOffset = 0
        /\ LocalHeaderAt(Archive, 0, STR_a_txt)
        /\ BytesAt(Archive, 35, 2) = <<104, 105>>
        /\ BytesAt(Archive, 37, DataDescriptorLen)
               = es[1].crc \o LE32(2) \o LE32(2)
        /\ bodyEndOffsets[1] + DataDescriptorLen = 49
        /\ es[2].localHeaderOffset = 49
        /\ LocalHeaderAt(Archive, 49, STR_b_bin)
        /\ BytesAt(Archive, 84, 3) = <<0, 1, 2>>
        /\ BytesAt(Archive, 87, DataDescriptorLen)
               = es[2].crc \o LE32(3) \o LE32(3)
        /\ bodyEndOffsets[2] + DataDescriptorLen = 99
        /\ EocdCdOffset(Archive) = 99
        /\ BytesAt(Archive, 99, 4) = SigCentral
        /\ EocdCdSize(Archive) = 102
        /\ BytesAt(Archive, 201, 4) = SigEOCD
        /\ Len(Archive) = 223

C15_Witness ==
    /\ TwoFileScenario
    /\ pc = "done"
    /\ response = Response(200)

\* The i-th window of n bytes of z (the last one may be shorter).
Window(z, i, n) ==
    LET at == (i - 1) * n
        left == Len(z) - at
    IN  BytesAt(z, at, IF left < n THEN left ELSE n)

\* C16: in the two-file scenario with piece length 16 the torrent's pieces
\* are exactly 14 digests, those of the successive 16-byte windows of the
\* 223-byte archive, the last window being 15 bytes long.
C16_TwoFilePieces ==
    (TwoFileScenario /\ TorrentStored /\ Torrent.info.pieceLength = 16) =>
        /\ Len(Archive) = 223
        /\ Len(Torrent.info.pieces) = 14
        /\ \A i \in 1..Len(Torrent.info.pieces) :
              Torrent.info.pieces[i] = sha1(Window(Archive, i, 16))

(***************************************************************************)
(* The piece hasher fed the whole stream in one call.                      *)
(***************************************************************************)
EmptyHasher == [hashes |-> <<>>, buf |-> <<>>, size |-> 0, total |-> 0]

FedAtOnce == FeedResult(EmptyHasher, fedBytes)

\* C17: the result of the piece hasher depends on the bytes fed and on the
\* piece length only, not on how the bytes were cut into chunks (chunks of
\* length zero included): after any sequence of feeds the pieces, the pending
\* bytes and the total are those of feeding the same bytes in one call, and
\* so is the piece list after the last piece has been hashed.
C17_ChunkingDoesNotMatter ==
    /\ pc = "feeding" => HasherState = FedAtOnce
    /\ pc = "finalized" =>
          /\ pieceHashes = (IF FedAtOnce.size > 0
                            THEN Append(FedAtOnce.hashes, sha1(FedAtOnce.buf))
                            ELSE FedAtOnce.hashes)
          /\ totalZipSizeForTorrent = FedAtOnce.total
          /\ totalZipSizeForTorrent = Len(fedBytes)
          /\ Len(pieceHashes) = Ceil(Len(fedBytes), TORRENT_PIECE_LENGTH)

C17_Witness ==
    /\ pc = "finalized"
    /\ Len(pieceHashes) >= 3
    /\ torrentPieceBufferCurrentSize > 0
    /\ hasherFed = Len(fedBytes)

\* C19: once addDataToR2Stream has returned the sink's pending buffer holds
\* fewer bytes than one part, once feedDataToTorrentHasher has returned the
\* hasher's pending buffer holds fewer bytes than one piece, and no buffer of
\* the request, the one assembled for the final part included, exceeds one
\* part or one piece respectively.
C19_BuffersBelowOnePartAndOnePiece ==
    /\ sinkFailure # "uploadPart" =>
          /\ r2UploadBufferSize < R2_PART_SIZE_LIMIT
          /\ Len(r2UploadBuffer) = r2UploadBufferSize
    /\ torrentPieceBufferCurrentSize < TORRENT_PIECE_LENGTH
    /\ Len(torrentPieceBufferArrays) = torrentPieceBufferCurrentSize
    /\ pc = "finalPart" => Len(finalR2UploadData) <= R2_PART_SIZE_LIMIT

\* C20: in a completed archive every directory entry carries the CRC and
\* the size written in the data descriptor of its file, its compressed and
\* uncompressed sizes are equal, the size is the number of body bytes that
\* lie between the file's local header and its descriptor, and the CRC is
\* the CRC-32 of those bytes; whatever the chunks of the body were, chunks of
\* length zero and an empty body included.
C20_DirectoryMatchesDescriptor ==
    ArchiveStored =>
        LET es == CentralEntries(Archive) IN
        /\ Len(es) = Len(bodyEndOffsets)
        /\ \A i \in 1..Len(es) :
             LET descriptorAt == bodyEndOffsets[i]
                 bodyAt == es[i].localHeaderOffset + LocalHeaderFixedLen
                               + Len(es[i].name)
                 body == BytesAt(Archive, bodyAt, descriptorAt - bodyAt)
             IN  /\ es[i].crc = BytesAt(Archive, descriptorAt, 4)
                 /\ es[i].compressedSize = RdLE32(Archive, descriptorAt + 4)
                 /\ es[i].uncompressedSize = RdLE32(Archive, descriptorAt + 8)
                 /\ es[i].compressedSize = es[i].uncompressedSize
                 /\ es[i].uncompressedSize = descriptorAt - bodyAt
                 /\ es[i].crc = WLE32(crc32(body, <<0, 0>>))

C20_Witness ==
    /\ ArchiveStored
    /\ chunksRead = MaxChunks
    /\ \E i \in 1..Len(centralDirectoryEntries) :
          centralDirectoryEntries[i].uncompressedSize = 5
    /\ \E i \in 1..Len(centralDirectoryEntries) :
          centralDirectoryEntries[i].uncompressedSize = 0

(***************************************************************************)
(* A request of one file whose local header, body and data descriptor add  *)
(* up to exactly one part size, after the file has been written and while  *)
(* no sink operation has failed.                                           *)
(***************************************************************************)
ExactFill ==
    /\ Len(filePaths) = 1
    /\ Len(centralDirectoryEntries) = 1
    /\ fileIdx = 2
    /\ currentGlobalOffset = R2_PART_SIZE_LIMIT
    /\ sinkFailure = "none"

\* C21: when header, body and descriptor of a single file add up to exactly
\* one part size, that part is uploaded by addDataToR2Stream, nothing is
\* pending at the flush of the sink, and the final part consists of the
\* central directory and the EOCD only.
C21_ExactFillLeavesOnlyTheTail ==
    ExactFill =>
        /\ Len(mpuParts) >= 1
        /\ mpuParts[1] = [partNumber |-> 1, data |-> emitted]
        /\ uploadedParts[1] = [partNumber |-> 1]
        /\ r2UploadBuffer = <<>>
        /\ r2UploadBufferSize = 0
        /\ remainingDataFromFilesBuffer = <<>>
        /\ BeforeFinalPart => Len(mpuParts) = 1
        /\ pc = "finalPart" => finalR2UploadData = zipTail
        /\ ~BeforeFinalPart =>
              /\ Len(mpuParts) = 2
              /\ mpuParts[2] = [partNumber |-> 2, data |-> zipTail]
              /\ Len(zipTail) = CentralEntryFixedLen
                                   + Len(Utf8Encode(centralDirectoryEntries[1].filename))
                                   + EOCDFixedLen

C21_Witness ==
    /\ ExactFill
    /\ pc = "done"
    /\ response = Response(200)
    /\ Len(mpuParts) = 2

(***************************************************************************)
(* A 32-bit field read back as <<high word, low word>>, and the value      *)
(* modulo 2^32 of a number <<top, hi, lo>> in the same form.               *)
(***************************************************************************)
FieldAt(b, at) == <<RdLE16(b, at + 2), RdLE16(b, at)>>

Mod2Pow32(n) == <<n[2], n[3]>>

ExceedsUint32(n) == n[1] > 0

C23_FinalPartNeverEmpty ==
    /\ pc = "finalPart" =>
          /\ Len(finalR2UploadData) >= EOCDFixedLen
          /\ BytesAt(finalR2UploadData, Len(finalR2UploadData) - EOCDFixedLen, 4) = SigEOCD
    /\ pc \in {"complete", "torrent"} =>
          /\ ~BeforeFinalPart
          /\ Len(mpuParts) = currentGlobalOffset \div R2_PART_SIZE_LIMIT + 1
          /\ Len(uploadedParts) = Len(mpuParts)
          /\ mpuParts[Len(mpuParts)].data = finalR2UploadData
          /\ r2PartIndex = Len(mpuParts) + 1
    /\ response.status = 400 => NothingAcquired
    /\ (mpuState = "aborted" \/ abortCalls > 0) => sinkFailure = "uploadPart"

C23_Witness ==
    /\ pc = "complete"
    /\ remainingDataFromFilesBuffer = <<>>
    /\ Len(mpuParts) >= 2

\* mpu.complete has been called (it returned or it threw).
CompleteInvoked == mpuState = "completed" \/ sinkFailure = "complete"

OtherUploadedBytes == AssembleParts(parked.uploadedParts, parked.mpuParts)

BothAnswered200 ==
    /\ pc = "done"
    /\ response = Response(200)
    /\ parked.pc = "done"
    /\ parked.response = Response(200)

\* Each request hashed exactly the archive it uploaded itself.
EachHashedItsOwnArchive ==
    /\ totalZipSizeForTorrent = Len(UploadedBytes)
    /\ PieceData(pieceHashes) = UploadedBytes
    /\ parked.totalZipSizeForTorrent = Len(OtherUploadedBytes)
    /\ PieceData(parked.pieceHashes) = OtherUploadedBytes

\* C25: after two requests for the same repository have both finished, the
\* torrent stored under <owner>/<name>.torrent has the length and the pieces
\* of the archive stored under <owner>/<name>.zip, which is the archive of
\* the complete that took effect last.
C25_TorrentDescribesLastCompletedArchive ==
    (BothAnswered200 /\ EachHashedItsOwnArchive) =>
        /\ Torrent.info.length = Len(Archive)
        /\ PieceData(Torrent.info.pieces) = Archive

(***************************************************************************)
(* The end of a request: a response, or an error that leaves fetch.        *)
(***************************************************************************)
Terminated == pc \in {"done", "uncaught"}

\* The loop head (line 124) is reached with the first path after the upload
\* was created, and from then on only with the path after the one visited.
NextPathAtLoopHead ==
    (pc' = "file" /\ pc # "file") =>
        \/ pc = "create" /\ fileIdx' = 1
        \/ fileIdx' = fileIdx + 1

\* An upper bound on the steps the request has still to take: the steps
\* after the loop, five for every path not yet finished, two for every chunk
\* the body streams can still deliver.
StepsLeft ==
    LET afterLoop == 7
        chunksLeft == 2 * (MaxChunks - chunksRead)
        inFile(k) == afterLoop + 5 * (Len(filePaths) - fileIdx + 1) - k + chunksLeft
        beforeLoop == afterLoop + 5 * MaxFiles + 2 * MaxChunks
    IN  CASE pc = "validate" -> beforeLoop + 3
          [] pc = "list" -> beforeLoop + 2
          [] pc = "create" -> beforeLoop + 1
          [] pc = "file" -> inFile(0)
          [] pc = "hdrFeed" -> inFile(1)
          [] pc = "fetch" -> inFile(2)
          [] pc = "read" -> inFile(3)
          [] pc = "chunkFeed" -> inFile(2)
          [] pc = "descFeed" -> inFile(4)
          [] pc = "flushFeed" -> 6
          [] pc = "tail" -> 5
          [] pc = "finalPart" -> 4
          [] pc = "complete" -> 3
          [] pc = "torrent" -> 2
          [] pc = "catch" -> 1
          [] OTHER -> 0

\* A step of the handler can be taken. The four positions named last are
\* left by BeginFile, FeedHeader, FeedDescriptor and BuildTail, whose only
\* condition is the position (and, for BeginFile, a path that is left).
CanStep ==
    \/ ENABLED (Validate \/ ListFiles \/ CreateUpload \/ FetchBody \/ ReadFails
                  \/ FeedChunk \/ FlushSink \/ FeedFlushed \/ FinalPart
                  \/ CompleteUpload \/ StoreTorrent \/ Catch)
    \/ pc = "file" /\ fileIdx <= Len(filePaths)
    \/ pc \in {"hdrFeed", "descFeed", "tail"}

\* C26: every request terminates: as long as it has not ended a step can be
\* taken (every external call returns or fails), and every step lowers a
\* bound on the steps left, which is never negative. A 200 response is
\* returned only after every listed path was visited once, in the order of
\* the list, the upload was completed and the torrent put.
C26_TerminatesAndSuccessMeansAllDone ==
    /\ [](/\ ~Terminated => CanStep
          /\ StepsLeft >= 0
          /\ response = Response(200) =>
                /\ pc = "done"
                /\ fileIdx = Len(filePaths) + 1
                /\ mpuState = "completed"
                /\ ArchiveStored
                /\ TorrentStored
                /\ Torrent = TorrentData(pieceHashes))
    /\ [][/\ StepsLeft' < StepsLeft
          /\ fileIdx' \in {fileIdx, fileIdx + 1}
          /\ NextPathAtLoopHead
          /\ pc' = "hdrFeed" => (pc = "file" /\ fileIdx' = fileIdx)]_vars

C26_Witness ==
    /\ pc = "done"
    /\ response = Response(200)
    /\ Len(filePaths) = 3
    /\ Len(centralDirectoryEntries) = 2

====
